---- MODULE Spec2Model ----
(***************************************************************************)
(* Model of src/app.py: a Streamlit script that segments an uploaded       *)
(* recording with ffmpeg, mails the selected segments in size-bounded      *)
(* batches over SMTP and records every send action in history_log.csv.     *)
(*                                                                         *)
(* Streamlit runs the whole script once per user interaction and once per  *)
(* st.rerun(); every browser session runs it in its own thread, and all    *)
(* sessions share the working directory (history_log.csv, temp_input.*,    *)
(* rec_* files).  A session's position in its script run is pc[s]; the     *)
(* steps are cut at the accesses to the shared files.                      *)
(***************************************************************************)
EXTENDS Integers, Sequences, FiniteSets, TLC

\* ------------------------------------------------------------------ bounds
MaxMinute == 1
MaxLogRows == 2
MaxBatchLen == 4

\* --------------------------------------------------------------- constants
SPLIT_LIMIT_MB == 10
EMAIL_SIZE_LIMIT_MB == 20
MB == 1024 * 1024
\* target_size_mb = SPLIT_LIMIT_MB - 0.5, in bytes
target_bytes == SPLIT_LIMIT_MB * MB - MB \div 2
size_limit_bytes == EMAIL_SIZE_LIMIT_MB * MB

Sessions == {"s1", "s2"}
None == "None"

\* The recorded statuses (the source writes them in Chinese with an emoji):
\*   "success"  = green  "成功"        "partial-failure" = orange "部分失敗"
\*   "config-error" = red "設定錯誤"    "interrupted" = black "中斷/錯誤"
STATUS_SUCCESS == "success"
STATUS_PARTIAL == "partial-failure"
STATUS_CONFIG == "config-error"
STATUS_INTERRUPTED == "interrupted"

\* ---------------------------------------------------------------- helpers
Range(f) == {f[i] : i \in DOMAIN f}

RECURSIVE SumSeq(_)
SumSeq(q) == IF q = <<>> THEN 0 ELSE Head(q) + SumSeq(Tail(q))

RECURSIVE Flatten(_)
Flatten(qq) == IF qq = <<>> THEN <<>> ELSE Head(qq) \o Flatten(Tail(qq))

RECURSIVE Join(_, _)
Join(parts, sep) ==
  IF parts = <<>> THEN ""
  ELSE IF Len(parts) = 1 THEN parts[1]
  ELSE parts[1] \o sep \o Join(Tail(parts), sep)

\* f"{bytes / (1024 * 1024):.2f} MB"
FormatMB(bytes) ==
  LET cents == ((bytes % MB) * 100 + MB \div 2) \div MB
      whole == bytes \div MB + (IF cents = 100 THEN 1 ELSE 0)
      frac  == IF cents = 100 THEN 0 ELSE cents
  IN ToString(whole) \o "." \o (IF frac < 10 THEN "0" ELSE "") \o ToString(frac) \o " MB"

\* ------------------------------------------------- the auto-batching loop
\* One iteration per selected file: close the current batch when the file
\* would push it over the limit and the batch holds something, then add the
\* file.  sz[f] is os.path.getsize(f).
RECURSIVE BatchLoop(_, _, _, _, _, _)
BatchLoop(selected, sz, i, batches, current_batch, current_batch_size) ==
  IF i > Len(selected)
  THEN IF current_batch # <<>> THEN Append(batches, current_batch) ELSE batches
  ELSE LET file == selected[i]
           f_size == sz[file]
           close == current_batch_size + f_size > size_limit_bytes /\ current_batch # <<>>
       IN BatchLoop(selected, sz, i + 1,
            IF close THEN Append(batches, current_batch) ELSE batches,
            IF close THEN <<file>> ELSE Append(current_batch, file),
            IF close THEN f_size ELSE current_batch_size + f_size)

\* A batcher that closes the current batch without checking it is non-empty.
AutoBatchNoEmptyCheck(selected, sz) ==
  LET RECURSIVE L(_, _, _, _)
      L(i, batches, cur, cur_size) ==
        IF i > Len(selected) THEN Append(batches, cur)
        ELSE LET close == cur_size + sz[selected[i]] > size_limit_bytes
             IN L(i + 1, IF close THEN Append(batches, cur) ELSE batches,
                  IF close THEN <<selected[i]>> ELSE Append(cur, selected[i]),
                  IF close THEN sz[selected[i]] ELSE cur_size + sz[selected[i]])
  IN L(1, <<>>, <<>>, 0)

\* A batcher that also closes the current batch when the file fills it to
\* the limit exactly (>= for >).
AutoBatchClosesAtLimit(selected, sz) ==
  LET RECURSIVE L(_, _, _, _)
      L(i, batches, cur, cur_size) ==
        IF i > Len(selected)
        THEN IF cur # <<>> THEN Append(batches, cur) ELSE batches
        ELSE LET close == cur_size + sz[selected[i]] >= size_limit_bytes /\ cur # <<>>
             IN L(i + 1, IF close THEN Append(batches, cur) ELSE batches,
                  IF close THEN <<selected[i]>> ELSE Append(cur, selected[i]),
                  IF close THEN sz[selected[i]] ELSE cur_size + sz[selected[i]])
  IN L(1, <<>>, <<>>, 0)

AutoBatch(selected, sz) == BatchLoop(selected, sz, 1, <<>>, <<>>, 0)

\* ------------------------------------------------ history_log.csv (ledger)
\* pandas' missing value (float nan): what read_csv returns for an empty
\* cell and for every token of its default NA list.  It is not a string.
NaN == "<float nan>"
NA_VALUES == {"", "#N/A", "N/A", "NA", "NULL", "NaN", "None", "n/a", "nan", "null"}

\* pd.read_csv on one cell of a text column, and DataFrame.to_csv on one value
read_cell(c) == IF c \in NA_VALUES THEN NaN ELSE c
write_cell(v) == IF v = NaN THEN "" ELSE v

read_row(r) == [k \in DOMAIN r |-> read_cell(r[k])]
write_row(r) == [k \in DOMAIN r |-> write_cell(r[k])]

\* The file: absent, or a header (with or without the total-size column that
\* V11 added) and rows of cells.
NoFile == [exists |-> FALSE, has_size |-> FALSE, rows |-> <<>>]

load_log(file) ==
  IF file.exists
  THEN LET df == [i \in 1..Len(file.rows) |-> read_row(file.rows[i])]
       IN IF ~file.has_size
          THEN [i \in 1..Len(df) |-> [df[i] EXCEPT !.total_size = ""]]
          ELSE df
  ELSE <<>>

save_log(df) ==
  [exists |-> TRUE, has_size |-> TRUE,
   rows |-> [i \in 1..Len(df) |-> write_row(df[i])]]

\* pd.concat([pd.DataFrame([new_data]), df], ignore_index=True)
concat_new(new_data, df) == <<new_data>> \o df

\* ------------------------------------------------------ segment sizing
\* Lines 99-100 compute with Python floats; here the same expressions are
\* evaluated exactly, on fractions [n, d] in lowest terms.
RECURSIVE GCD(_, _)
GCD(a, b) == IF b = 0 THEN a ELSE GCD(b, a % b)
Rat(n, d) == LET g == GCD(n, d) IN [n |-> n \div g, d |-> d \div g]
RatMul(a, b) ==
  LET x == Rat(a.n, b.d)
      y == Rat(b.n, a.d)
  IN [n |-> x.n * y.n, d |-> x.d * y.d]
RatDiv(a, b) == RatMul(a, [n |-> b.d, d |-> b.n])
RatLess(a, b) == a.n * b.d < b.n * a.d
Floor(a) == a.n \div a.d
Ceil(a) == (a.n + a.d - 1) \div a.d

\* avg_bitrate = size_bytes / duration
avg_bitrate(size_bytes, duration) == Rat(size_bytes, duration)

\* segment_time = (target_bytes / avg_bitrate) * 0.95
segment_time_without_margin(size_bytes, duration) ==
  RatDiv(Rat(target_bytes, 1), avg_bitrate(size_bytes, duration))
segment_time(size_bytes, duration) ==
  RatMul(RatDiv(Rat(target_bytes, 1), avg_bitrate(size_bytes, duration)), Rat(95, 100))

\* The segment muxer asked for segment_time (line 105, -c copy): it cuts at
\* the multiples of segment_time until the input ends.
SegmentCount(size_bytes, duration) ==
  Ceil(RatDiv(Rat(duration, 1), segment_time(size_bytes, duration)))

\* The bytes of the input before the k-th cut, at the average bitrate.
BytesBeforeCut(size_bytes, duration, k) ==
  IF k >= SegmentCount(size_bytes, duration) THEN size_bytes
  ELSE Floor(RatMul(RatMul(Rat(k, 1), segment_time(size_bytes, duration)),
                    avg_bitrate(size_bytes, duration)))

\* Lines 86-107: the sizes of the files ffmpeg writes, part000 first: the
\* whole input for a small one, the stretches between the cuts otherwise.
SegmentSizes(size_bytes, duration) ==
  IF size_bytes <= target_bytes THEN <<size_bytes>>
  ELSE [k \in 1..SegmentCount(size_bytes, duration) |->
          BytesBeforeCut(size_bytes, duration, k) - BytesBeforeCut(size_bytes, duration, k - 1)]

\* ------------------------------------------------------------- the uploads
\* The recordings a user may upload.  parts are the sizes of the files
\* ffmpeg writes for that content; media says whether ffprobe parses it.
UploadIds == {"A", "B", "C", "D"}
Upload ==
  [A |-> [name |-> "a.mp3", size |-> 27 * MB, duration |-> 600, media |-> TRUE,
          parts |-> SegmentSizes(27 * MB, 600)],
   B |-> [name |-> "b.mp3", size |-> 18 * MB, duration |-> 400, media |-> TRUE,
          parts |-> SegmentSizes(18 * MB, 400)],
   C |-> [name |-> "c.mp3", size |-> 5 * MB, duration |-> 120, media |-> TRUE,
          parts |-> SegmentSizes(5 * MB, 120)],
   D |-> [name |-> "d.mp3", size |-> 1 * MB, duration |-> 0, media |-> FALSE,
          parts |-> <<>>]]

Recipients == {"", "a@x.io", "NA"}
ADMIN_PASSWORD == "right"
Passwords == {"", "wrong", ADMIN_PASSWORD}
SecretsStates == {"ok", "missing", "malformed"}
SMTP_ERROR == "smtp error"

VARIABLES
  minute,                \* datetime.now(), to the minute
  fs,                    \* the rec_<minute>_partNNN.mp3 files: name -> content
  temp_input,            \* temp_input.mp3: None or the upload whose bytes it holds
  log_file,              \* history_log.csv
  secrets,               \* st.secrets: the [email] section is there, missing or malformed
  uploaded_file,         \* st.file_uploader widget, per session
  admin_password,        \* password text input, per session
  clicked,               \* the button that triggered the running script run
  last_uploaded_file_id, \* st.session_state['last_uploaded_file_id']
  generated_files,       \* st.session_state['generated_files']
  pc,                    \* position of the session's script run
  files,                 \* result of split_audio_ffmpeg in this run
  st_error,              \* the st.error message of split_audio_ffmpeg on the page
  recipient_email, checked, selected_files,
  total_selected_size_mb, \* line 210, kept in bytes (FormatMB divides and rounds)
  batches, idx, all_success, error_msgs,
  sent,                  \* messages handed to SMTP by the running send action
  log_args,              \* arguments of the pending add_log call
  df,                    \* add_log's local: the history it loaded
  in_except,             \* inside the handler's except block
  b_sizes, b_batches, b_done, \* input and output of the batcher run on its own
  z_size, z_duration,    \* what the probe returned for a file segmented on its own
  z_files, z_done        \* and the sizes of the files its segmentation wrote

shared == <<minute, fs, temp_input, log_file, secrets>>
widgets == <<uploaded_file, admin_password, clicked>>
session_state == <<last_uploaded_file_id, generated_files>>
send_locals == <<recipient_email, checked, selected_files, total_selected_size_mb,
                 batches, idx,
                 all_success, error_msgs, sent, log_args, df, in_except>>
batcher == <<b_sizes, b_batches, b_done>>
sizer == <<z_size, z_duration, z_files, z_done>>
vars == <<shared, widgets, session_state, pc, files, st_error, send_locals, batcher, sizer>>

\* f"{uploaded_file.name}-{uploaded_file.size}"
file_id(u) == <<Upload[u].name, Upload[u].size>>

\* rec_<ts>_part<part>.mp3
FileName(ts, part) == [ts |-> ts, part |-> part]

\* sorted(os.listdir('.')) filtered on the prefix rec_<timestamp> and the extension
RECURSIVE SortByPart(_)
SortByPart(names) ==
  IF names = {} THEN <<>>
  ELSE LET first == CHOOSE n \in names : \A m \in names : n.part <= m.part
       IN <<first>> \o SortByPart(names \ {first})

ListGenerated(dir, timestamp) == SortByPart({n \in DOMAIN dir : n.ts = timestamp})

EmptyFs == [n \in {} |-> None]
WriteFiles(dir, new) == [n \in DOMAIN dir \cup DOMAIN new |->
                           IF n \in DOMAIN new THEN new[n] ELSE dir[n]]

\* ffmpeg.probe on the temp file: (duration, size), or (None, None) when the
\* file is missing or is not media (valid = FALSE stands for the Nones)
get_audio_info(content) ==
  IF content = None \/ ~Upload[content].media
  THEN [valid |-> FALSE, duration |-> 0, size |-> 0]
  ELSE [valid |-> TRUE, duration |-> Upload[content].duration,
        size |-> Upload[content].size]

\* split_audio_ffmpeg whose except branch falls through to the directory scan
\* instead of returning []
split_audio_ffmpeg_scan_after_error(content, dir, timestamp, ffmpeg_ok) ==
  LET info == get_audio_info(content)
      outs == [n \in {FileName(timestamp, k - 1) : k \in 1..Len(Upload[content].parts)} |->
                 [src |-> content, size |-> Upload[content].parts[n.part + 1]]]
  IN IF ~info.valid \/ info.duration = 0
     THEN [dir |-> dir, files |-> <<>>, error |-> "unreadable"]
     ELSE IF ~ffmpeg_ok
     THEN [dir |-> dir, files |-> ListGenerated(dir, timestamp), error |-> "ffmpeg failed"]
     ELSE IF info.size <= target_bytes
     THEN [dir |-> WriteFiles(dir, outs), files |-> <<FileName(timestamp, 0)>>,
           error |-> ""]
     ELSE [dir |-> WriteFiles(dir, outs),
           files |-> ListGenerated(WriteFiles(dir, outs), timestamp), error |-> ""]

\* split_audio_ffmpeg(temp_filename, target_bytes) at minute timestamp, with
\* the external ffmpeg run succeeding or raising ffmpeg.Error (ffmpeg_ok):
\* the directory after the run, the list of file names returned and the
\* st.error message shown ("" for none).
split_audio_ffmpeg(content, dir, timestamp, ffmpeg_ok) ==
  LET info == get_audio_info(content)
      outs == [n \in {FileName(timestamp, k - 1) : k \in 1..Len(Upload[content].parts)} |->
                 [src |-> content, size |-> Upload[content].parts[n.part + 1]]]
  IN IF ~info.valid \/ info.duration = 0
     THEN [dir |-> dir, files |-> <<>>, error |-> "unreadable"]
     ELSE IF ~ffmpeg_ok
     THEN [dir |-> dir, files |-> <<>>, error |-> "ffmpeg failed"]
     ELSE IF info.size <= target_bytes
     THEN [dir |-> WriteFiles(dir, outs), files |-> <<FileName(timestamp, 0)>>,
           error |-> ""]
     ELSE [dir |-> WriteFiles(dir, outs),
           files |-> ListGenerated(WriteFiles(dir, outs), timestamp), error |-> ""]

\* send_single_batch_email: the message built for one batch (only the files
\* that exist are attached) and what the SMTP conversation returned.
SUBJECT == "audio segments"
\* send_single_batch_email that numbers the subject from the second message
\* on (batch_index > 1 for total_batches > 1)
send_single_batch_email_first_unnumbered(batch_files, dir, batch_index, total_batches, smtp_ok) ==
  [subject |-> SUBJECT \o (IF batch_index > 1
                           THEN " (" \o ToString(batch_index) \o "/"
                                \o ToString(total_batches) \o ")"
                           ELSE ""),
   batch_index |-> batch_index,
   total_batches |-> total_batches,
   attachments |-> SelectSeq(batch_files, LAMBDA n : n \in DOMAIN dir),
   success |-> smtp_ok,
   msg |-> IF smtp_ok THEN "ok" ELSE SMTP_ERROR]
send_single_batch_email(batch_files, dir, batch_index, total_batches, smtp_ok) ==
  [subject |-> SUBJECT \o (IF total_batches > 1
                           THEN " (" \o ToString(batch_index) \o "/"
                                \o ToString(total_batches) \o ")"
                           ELSE ""),
   batch_index |-> batch_index,
   total_batches |-> total_batches,
   attachments |-> SelectSeq(batch_files, LAMBDA n : n \in DOMAIN dir),
   success |-> smtp_ok,
   msg |-> IF smtp_ok THEN "ok" ELSE SMTP_ERROR]

\* f"第 {idx} 封失敗: {msg}"
ErrorMsg(i, msg) == "batch " \o ToString(i) \o " failed: " \o msg

\* The add_log arguments chosen after the dispatch loop (lines 282-292)
ResultArgs(recipient, ok_all, n_batches, errors, total_size_str) ==
  IF ok_all
  THEN [recipient |-> recipient, status |-> STATUS_SUCCESS,
        message |-> "total " \o ToString(n_batches) \o ", all delivered",
        total_size |-> total_size_str]
  ELSE [recipient |-> recipient, status |-> STATUS_PARTIAL,
        message |-> Join(errors, " | "), total_size |-> total_size_str]

ConfigErrorArgs(recipient) ==
  [recipient |-> recipient, status |-> STATUS_CONFIG,
   message |-> "Secrets not set", total_size |-> "0 MB"]

InterruptedArgs(recipient) ==
  [recipient |-> recipient, status |-> STATUS_INTERRUPTED,
   message |-> "stopped by user or connection error", total_size |-> "unknown"]

NoArgs == [recipient |-> "", status |-> "", message |-> "", total_size |-> ""]

\* add_log's new_data for its arguments.  The date column, written from the
\* wall clock and read by nothing in the program, is left out of the rows.
NewData(args) ==
  [recipient |-> args.recipient, total_size |-> args.total_size,
   status |-> args.status, message |-> args.message]

\* The dataframes the admin's data editor can hand back for current_df:
\* unchanged, one row deleted, or one row's message rewritten.
Edits(current_df) ==
  {current_df} \cup {[i \in 1..(Len(current_df) - 1) |-> IF i < k THEN current_df[i] ELSE current_df[i + 1]] :
      k \in 1..Len(current_df)}
  \cup {[current_df EXCEPT ![k].message = "corrected"] : k \in 1..Len(current_df)}

\* A history file written before V11 (no total-size column)
LegacyFile ==
  [exists |-> TRUE, has_size |-> FALSE,
   rows |-> <<[recipient |-> "old@x.io", total_size |-> "",
               status |-> STATUS_SUCCESS, message |-> "sent"]>>]

\* Another one, whose only row was recorded for the recipient text "NA"
LegacyFileNA ==
  [exists |-> TRUE, has_size |-> FALSE,
   rows |-> <<[recipient |-> "NA", total_size |-> "",
               status |-> STATUS_PARTIAL, message |-> "batch 1 failed: smtp error"]>>]

NoId == <<>>

\* ------------------------------------------------------------ initial state
\* The application before any session has done anything: history_log.csv is
\* one of LogFiles, st.secrets one of SecretsSet, the directory holds no
\* segment, the batcher run on its own is given one of BatchInputs and the
\* segmentation run on its own one of ProbeResults.
InitWith(LogFiles, SecretsSet, BatchInputs, ProbeResults) ==
  /\ minute = 0
  /\ fs = EmptyFs
  /\ temp_input = None
  /\ log_file \in LogFiles
  /\ secrets \in SecretsSet
  /\ uploaded_file = [s \in Sessions |-> None]
  /\ admin_password = [s \in Sessions |-> ""]
  /\ clicked = [s \in Sessions |-> "none"]
  /\ last_uploaded_file_id = [s \in Sessions |-> NoId]
  /\ generated_files = [s \in Sessions |-> <<>>]
  /\ pc = [s \in Sessions |-> "idle"]
  /\ files = [s \in Sessions |-> <<>>]
  /\ st_error = [s \in Sessions |-> ""]
  /\ recipient_email = [s \in Sessions |-> ""]
  /\ checked = [s \in Sessions |-> {}]
  /\ selected_files = [s \in Sessions |-> <<>>]
  /\ total_selected_size_mb = [s \in Sessions |-> 0]
  /\ batches = [s \in Sessions |-> <<>>]
  /\ idx = [s \in Sessions |-> 0]
  /\ all_success = [s \in Sessions |-> TRUE]
  /\ error_msgs = [s \in Sessions |-> <<>>]
  /\ sent = [s \in Sessions |-> <<>>]
  /\ log_args = [s \in Sessions |-> NoArgs]
  /\ df = [s \in Sessions |-> <<>>]
  /\ in_except = [s \in Sessions |-> FALSE]
  /\ b_sizes \in BatchInputs
  /\ b_batches = <<>>
  /\ b_done = FALSE
  /\ \E info \in ProbeResults : z_size = info.size /\ z_duration = info.duration
  /\ z_files = <<>>
  /\ z_done = FALSE

\* The script run of session s ends: its locals die, the button flag clears.
EndRun(s) ==
  /\ pc' = [pc EXCEPT ![s] = "idle"]
  /\ clicked' = [clicked EXCEPT ![s] = "none"]
  /\ admin_password' = [admin_password EXCEPT ![s] = ""]
  /\ files' = [files EXCEPT ![s] = <<>>]
  /\ recipient_email' = [recipient_email EXCEPT ![s] = ""]
  /\ checked' = [checked EXCEPT ![s] = {}]
  /\ selected_files' = [selected_files EXCEPT ![s] = <<>>]
  /\ total_selected_size_mb' = [total_selected_size_mb EXCEPT ![s] = 0]
  /\ batches' = [batches EXCEPT ![s] = <<>>]
  /\ idx' = [idx EXCEPT ![s] = 0]
  /\ all_success' = [all_success EXCEPT ![s] = TRUE]
  /\ error_msgs' = [error_msgs EXCEPT ![s] = <<>>]
  /\ sent' = [sent EXCEPT ![s] = <<>>]
  /\ log_args' = [log_args EXCEPT ![s] = NoArgs]
  /\ df' = [df EXCEPT ![s] = <<>>]
  /\ in_except' = [in_except EXCEPT ![s] = FALSE]

\* A script run of session s starts: the page is drawn afresh.
StartRun(s) ==
  /\ pc' = [pc EXCEPT ![s] = "run"]
  /\ st_error' = [st_error EXCEPT ![s] = ""]

\* ------------------------------------------------------ user interactions
\* Each one starts a script run of the session.

\* The user puts another file in the uploader, or clears it.
UserUpload(s, u) ==
  /\ pc[s] = "idle"
  /\ u # uploaded_file[s]
  /\ uploaded_file' = [uploaded_file EXCEPT ![s] = u]
  /\ StartRun(s)
  /\ UNCHANGED <<shared, admin_password, clicked, session_state, files, send_locals, batcher, sizer>>

\* Any other widget change (a checkbox, the recipient text): a plain rerun.
UserEdit(s) ==
  /\ pc[s] = "idle"
  /\ StartRun(s)
  /\ UNCHANGED <<shared, widgets, session_state, files, send_locals, batcher, sizer>>

\* The "Start Over" button (lines 161-164): clear the session state and
\* st.rerun().
UserReset(s) ==
  /\ pc[s] = "idle"
  /\ generated_files' = [generated_files EXCEPT ![s] = <<>>]
  /\ last_uploaded_file_id' = [last_uploaded_file_id EXCEPT ![s] = NoId]
  /\ StartRun(s)
  /\ UNCHANGED <<shared, widgets, files, send_locals, batcher, sizer>>

\* The send button is on the page only when the last run rendered the send
\* section (lines 193-199).
SendButtonShown(s) ==
  /\ generated_files[s] # <<>>
  /\ \E n \in Range(generated_files[s]) : n \in DOMAIN fs

\* The user presses the send button; r is the recipient text, chk the ticked
\* checkboxes.  (The history, on disk and as loaded by a session, is kept
\* under MaxLogRows rows by sending no more once it is that long.)
UserSend(s, r, chk) ==
  /\ pc[s] = "idle"
  /\ SendButtonShown(s)
  /\ Len(log_file.rows) < MaxLogRows
  /\ \A t \in Sessions : Len(df[t]) < MaxLogRows
  /\ chk \subseteq Range(generated_files[s])
  /\ clicked' = [clicked EXCEPT ![s] = "send"]
  /\ recipient_email' = [recipient_email EXCEPT ![s] = r]
  /\ checked' = [checked EXCEPT ![s] = chk]
  /\ StartRun(s)
  /\ UNCHANGED <<shared, uploaded_file, admin_password, session_state, files,
                 selected_files, total_selected_size_mb, batches, idx, all_success, error_msgs, sent,
                 log_args, df, in_except, batcher, sizer>>

\* The admin tab: the user types password pw and presses the save button
\* (which the page shows only when the password matched).
UserAdminSave(s, pw) ==
  /\ pc[s] = "idle"
  /\ admin_password' = [admin_password EXCEPT ![s] = pw]
  /\ clicked' = [clicked EXCEPT ![s] = "admin"]
  /\ StartRun(s)
  /\ UNCHANGED <<shared, uploaded_file, session_state, files, send_locals, batcher, sizer>>

\* ------------------------------------------------------- the script run
\* Lines 172-174: the segments held after comparing the upload's identity
\* with the held one.
HeldAlwaysDropped(held_id, held_files, u) == <<>>
HeldAfterUpload(held_id, held_files, u) ==
  IF held_id # file_id(u) THEN <<>> ELSE held_files

\* Lines 170-182: compare the upload's identity with the held one, drop the
\* held segments when it differs, and when no segments are held write the
\* upload to the temp file.
HandleUpload(s) ==
  /\ pc[s] = "run"
  /\ LET u == uploaded_file[s]
         held == HeldAfterUpload(last_uploaded_file_id[s], generated_files[s], u)
     IN IF u = None
        THEN /\ pc' = [pc EXCEPT ![s] = "section"]
             /\ UNCHANGED <<session_state, temp_input>>
        ELSE /\ last_uploaded_file_id' = [last_uploaded_file_id EXCEPT ![s] = file_id(u)]
             /\ generated_files' = [generated_files EXCEPT ![s] = held]
             /\ IF held = <<>>
                THEN /\ temp_input' = u
                     /\ pc' = [pc EXCEPT ![s] = "split"]
                ELSE /\ pc' = [pc EXCEPT ![s] = "section"]
                     /\ UNCHANGED temp_input
  /\ UNCHANGED <<minute, fs, log_file, secrets, widgets, files, st_error, send_locals, batcher, sizer>>

\* Line 185: split_audio_ffmpeg on the temp file as it is now.
SplitAudio(s, ffmpeg_ok) ==
  /\ pc[s] = "split"
  /\ LET r == split_audio_ffmpeg(temp_input, fs, minute, ffmpeg_ok)
     IN /\ fs' = r.dir
        /\ files' = [files EXCEPT ![s] = r.files]
        /\ st_error' = [st_error EXCEPT ![s] = r.error]
  /\ pc' = [pc EXCEPT ![s] = "cleanup"]
  /\ UNCHANGED <<minute, temp_input, log_file, secrets, widgets, session_state,
                 send_locals, batcher, sizer>>

\* Lines 186-190: keep the files when there are any, remove the temp file.
Cleanup(s) ==
  /\ pc[s] = "cleanup"
  /\ generated_files' = [generated_files EXCEPT ![s] =
                           IF files[s] # <<>> THEN files[s] ELSE @]
  /\ temp_input' = None
  /\ pc' = [pc EXCEPT ![s] = "section"]
  /\ UNCHANGED <<minute, fs, log_file, secrets, widgets, last_uploaded_file_id, files,
                 st_error, send_locals, batcher, sizer>>

\* Lines 193-210 of the run: the files offered and the files ticked.
valid_files(s) == SelectSeq(generated_files[s], LAMBDA n : n \in DOMAIN fs)
SelectedOf(s) == SelectSeq(valid_files(s), LAMBDA n : n \in checked[s])
getsize(names) == [n \in Range(names) |-> fs[n].size]
TotalSize(names) == SumSeq([i \in 1..Len(names) |-> fs[names[i]].size])

\* Lines 238-240 and 294: what the handler does with st.secrets: "send" when
\* the [email] section and its keys are there, "else" (the configuration
\* error branch) when the section is missing, "raise" when a key lookup
\* raises KeyError.
CredentialsIgnored(sec) == "send"
CredentialsBranch(sec) ==
  IF sec = "missing" THEN "else"
  ELSE IF sec = "malformed" THEN "raise"
  ELSE "send"

\* Lines 219-266: when the send button was pressed and the send section is
\* drawn, validate the inputs, look up the credentials and build the batches.
Section(s) ==
  /\ pc[s] = "section"
  /\ IF clicked[s] = "send" /\ generated_files[s] # <<>> /\ valid_files(s) # <<>>
        /\ recipient_email[s] # "" /\ SelectedOf(s) # <<>>
     THEN /\ selected_files' = [selected_files EXCEPT ![s] = SelectedOf(s)]
          /\ total_selected_size_mb' =
               [total_selected_size_mb EXCEPT ![s] = TotalSize(SelectedOf(s))]
          /\ IF CredentialsBranch(secrets) = "else"
             THEN /\ log_args' = [log_args EXCEPT ![s] = ConfigErrorArgs(recipient_email[s])]
                  /\ pc' = [pc EXCEPT ![s] = "add_log"]
                  /\ UNCHANGED <<batches, idx, all_success, error_msgs, sent>>
             ELSE IF CredentialsBranch(secrets) = "raise"
             THEN /\ pc' = [pc EXCEPT ![s] = "except"]
                  /\ UNCHANGED <<batches, idx, all_success, error_msgs, sent, log_args>>
             ELSE /\ batches' = [batches EXCEPT ![s] =
                                   AutoBatch(SelectedOf(s), getsize(SelectedOf(s)))]
                  /\ idx' = [idx EXCEPT ![s] = 0]
                  /\ all_success' = [all_success EXCEPT ![s] = TRUE]
                  /\ error_msgs' = [error_msgs EXCEPT ![s] = <<>>]
                  /\ sent' = [sent EXCEPT ![s] = <<>>]
                  /\ pc' = [pc EXCEPT ![s] = "dispatch"]
                  /\ UNCHANGED log_args
     ELSE /\ pc' = [pc EXCEPT ![s] = "display"]
          /\ UNCHANGED <<selected_files, total_selected_size_mb, batches, idx, all_success, error_msgs, sent, log_args>>
  /\ UNCHANGED <<shared, widgets, session_state, files, st_error, recipient_email, checked,
                 df, in_except, batcher, sizer>>

\* Line 272: the loop's position after batch i of n was attempted.
NextIdxFailFast(i, n, success) == IF success THEN i ELSE n
NextIdx(i, n, success) == i

\* Lines 272-279: one iteration of the dispatch loop.
SendBatch(s, smtp_ok) ==
  /\ pc[s] = "dispatch"
  /\ idx[s] < Len(batches[s])
  /\ LET i == idx[s] + 1
         m == send_single_batch_email(batches[s][i], fs, i, Len(batches[s]), smtp_ok)
     IN /\ sent' = [sent EXCEPT ![s] = Append(@, m)]
        /\ idx' = [idx EXCEPT ![s] = NextIdx(i, Len(batches[s]), m.success)]
        /\ all_success' = [all_success EXCEPT ![s] = @ /\ m.success]
        /\ error_msgs' = [error_msgs EXCEPT ![s] =
                            IF m.success THEN @ ELSE Append(@, ErrorMsg(i, m.msg))]
  /\ UNCHANGED <<shared, widgets, session_state, pc, files, st_error, recipient_email,
                 checked, selected_files, total_selected_size_mb, batches, log_args, df, in_except, batcher, sizer>>

\* Lines 282-292: the loop is over; choose the row to record.
RecordResult(s) ==
  /\ pc[s] = "dispatch"
  /\ idx[s] >= Len(batches[s])
  /\ log_args' = [log_args EXCEPT ![s] =
                    ResultArgs(recipient_email[s], all_success[s], Len(batches[s]),
                               error_msgs[s], FormatMB(total_selected_size_mb[s]))]
  /\ pc' = [pc EXCEPT ![s] = "add_log"]
  /\ UNCHANGED <<shared, widgets, session_state, files, st_error, recipient_email, checked,
                 selected_files, total_selected_size_mb, batches, idx, all_success, error_msgs, sent,
                 df, in_except, batcher, sizer>>

\* An exception inside the handler's try block reaches the except clause; one
\* raised inside the except clause ends the script run.
Raise(s) ==
  IF in_except[s]
  THEN EndRun(s)
  ELSE /\ pc' = [pc EXCEPT ![s] = "except"]
       /\ UNCHANGED <<clicked, admin_password, files, send_locals>>

\* add_log, lines 42-50: build the row and load the history (io_ok = FALSE:
\* the read raises).
AddLogLoad(s, io_ok) ==
  /\ pc[s] = "add_log"
  /\ IF io_ok
     THEN /\ df' = [df EXCEPT ![s] = load_log(log_file)]
          /\ pc' = [pc EXCEPT ![s] = "save_log"]
          /\ UNCHANGED <<clicked, admin_password, files, recipient_email, checked,
                         selected_files, total_selected_size_mb, batches, idx, all_success, error_msgs, sent,
                         log_args, in_except>>
     ELSE Raise(s)
  /\ UNCHANGED <<shared, uploaded_file, session_state, st_error, batcher, sizer>>

\* add_log, lines 51-52: put the row first and rewrite the file (io_ok =
\* FALSE: the write raises and the file is left as it was).
AddLogSave(s, io_ok) ==
  /\ pc[s] = "save_log"
  /\ IF io_ok
     THEN /\ log_file' = save_log(concat_new(NewData(log_args[s]), df[s]))
          /\ pc' = [pc EXCEPT ![s] = "display"]
          /\ UNCHANGED <<clicked, admin_password, files, send_locals>>
     ELSE /\ Raise(s)
          /\ UNCHANGED log_file
  /\ UNCHANGED <<minute, fs, temp_input, secrets, uploaded_file, session_state,
                 st_error, batcher, sizer>>

\* Lines 298-300: the except clause records an interrupted send.
Except(s) ==
  /\ pc[s] = "except"
  /\ log_args' = [log_args EXCEPT ![s] = InterruptedArgs(recipient_email[s])]
  /\ in_except' = [in_except EXCEPT ![s] = TRUE]
  /\ pc' = [pc EXCEPT ![s] = "add_log"]
  /\ UNCHANGED <<shared, widgets, session_state, files, st_error, recipient_email, checked,
                 selected_files, total_selected_size_mb, batches, idx, all_success, error_msgs, sent,
                 df, batcher, sizer>>

\* Lines 303-325: show the history, then the admin tab; the run ends here
\* unless the admin's save button was pressed and the password matches.
Display(s) ==
  /\ pc[s] = "display"
  /\ IF clicked[s] = "admin" /\ admin_password[s] = ADMIN_PASSWORD
     THEN /\ pc' = [pc EXCEPT ![s] = "admin_load"]
          /\ UNCHANGED <<clicked, admin_password, files, send_locals>>
     ELSE EndRun(s)
  /\ UNCHANGED <<shared, uploaded_file, session_state, st_error, batcher, sizer>>

\* Lines 331-337: the editor's dataframe, from the history as it is now.
AdminLoad(s) ==
  /\ pc[s] = "admin_load"
  /\ \E edited_df \in Edits(load_log(log_file)) :
       df' = [df EXCEPT ![s] = edited_df]
  /\ pc' = [pc EXCEPT ![s] = "admin_save"]
  /\ UNCHANGED <<shared, widgets, session_state, files, st_error, recipient_email, checked,
                 selected_files, total_selected_size_mb, batches, idx, all_success, error_msgs, sent,
                 log_args, in_except, batcher, sizer>>

\* Lines 339-343: save_log(edited_df) and st.rerun().
AdminSave(s) ==
  /\ pc[s] = "admin_save"
  /\ log_file' = save_log(df[s])
  /\ df' = [df EXCEPT ![s] = <<>>]
  /\ clicked' = [clicked EXCEPT ![s] = "none"]
  /\ StartRun(s)
  /\ UNCHANGED <<minute, fs, temp_input, secrets, uploaded_file, admin_password,
                 session_state, files, recipient_email, checked, selected_files,
                 total_selected_size_mb,
                 batches, idx, all_success, error_msgs, sent, log_args, in_except,
                 batcher, sizer>>

\* The wall clock reaches the next minute.
Tick ==
  /\ minute < MaxMinute
  /\ minute' = minute + 1
  /\ UNCHANGED <<fs, temp_input, log_file, secrets, widgets, session_state, pc, files,
                 st_error, send_locals, batcher, sizer>>

\* A segment file disappears from the working directory: nothing in the
\* script removes one, the host may (lines 195-198 and 131 provide for it).
FileCleared ==
  /\ \E gone \in DOMAIN fs : fs' = [n \in DOMAIN fs \ {gone} |-> fs[n]]
  /\ UNCHANGED <<minute, temp_input, log_file, secrets, widgets, session_state, pc, files,
                 st_error, send_locals, batcher, sizer>>

\* The batcher on a list of sizes: the "files" are the positions 1..n of the
\* list and getsize is the list itself.
RunBatcher ==
  /\ ~b_done
  /\ b_batches' = AutoBatch([i \in 1..Len(b_sizes) |-> i], b_sizes)
  /\ b_done' = TRUE
  /\ UNCHANGED <<shared, widgets, session_state, pc, files, st_error, send_locals, b_sizes,
                 sizer>>

\* Lines 75-107 on a file of z_size bytes lasting z_duration seconds, in an
\* empty directory and with ffmpeg succeeding: the sizes of the files
\* written, part000 first (none when the probe gives no duration).
RunSizing ==
  /\ ~z_done
  /\ z_files' = IF z_duration = 0 THEN <<>> ELSE SegmentSizes(z_size, z_duration)
  /\ z_done' = TRUE
  /\ UNCHANGED <<shared, widgets, session_state, pc, files, st_error, send_locals, batcher,
                 z_size, z_duration>>

\* ------------------------------------------------------- specifications
NoProbe == [size |-> 0, duration |-> 0]
ProbeSizes == {1 * MB, 9 * MB, target_bytes, 10 * MB, 18 * MB, 19 * MB, 27 * MB, 40 * MB}
ProbeDurations == {0, 1, 7, 60, 400, 600, 3600, 7200}
ProbeResults == [size : ProbeSizes, duration : ProbeDurations]

\* The segmentation alone, on every probed size and duration.
NextSizing == RunSizing
SpecSizing == InitWith({NoFile}, {"ok"}, {<<>>}, ProbeResults) /\ [][NextSizing]_vars

BatchSizes == {1, 6 * MB, 7 * MB, 8 * MB, 20 * MB, 25 * MB}
BatchInputs == UNION {[1..n -> BatchSizes] : n \in 0..MaxBatchLen}

\* The batcher alone, on every list of up to MaxBatchLen sizes.
NextBatch == RunBatcher
SpecBatch == InitWith({NoFile}, {"ok"}, BatchInputs, {NoProbe}) /\ [][NextBatch]_vars

\* One session sending the segments of recording A: every recipient text,
\* every selection, every state of st.secrets, every outcome of SMTP and of
\* the history file's I/O, and the admin tab.
NextSend ==
  \/ UserUpload("s1", "A")
  \/ \E r \in Recipients, chk \in SUBSET Range(generated_files["s1"]) : UserSend("s1", r, chk)
  \/ \E pw \in Passwords : UserAdminSave("s1", pw)
  \/ HandleUpload("s1")
  \/ SplitAudio("s1", TRUE)
  \/ Cleanup("s1")
  \/ Section("s1")
  \/ \E smtp_ok \in BOOLEAN : SendBatch("s1", smtp_ok)
  \/ RecordResult("s1")
  \/ \E io_ok \in BOOLEAN : AddLogLoad("s1", io_ok)
  \/ \E io_ok \in BOOLEAN : AddLogSave("s1", io_ok)
  \/ Except("s1")
  \/ Display("s1")
  \/ AdminLoad("s1")
  \/ AdminSave("s1")
SpecSend == InitWith({NoFile, LegacyFile}, SecretsStates, {<<>>}, {NoProbe}) /\ [][NextSend]_vars

\* One session uploading, re-uploading and resetting over the minutes, with
\* every outcome of ffmpeg, and sending all it holds to one recipient.
NextUpload ==
  \/ Tick
  \/ \E u \in UploadIds \cup {None} : UserUpload("s1", u)
  \/ UserEdit("s1")
  \/ UserReset("s1")
  \/ UserSend("s1", "a@x.io", Range(generated_files["s1"]))
  \/ HandleUpload("s1")
  \/ \E ffmpeg_ok \in BOOLEAN : SplitAudio("s1", ffmpeg_ok)
  \/ Cleanup("s1")
  \/ Section("s1")
  \/ SendBatch("s1", TRUE)
  \/ RecordResult("s1")
  \/ AddLogLoad("s1", TRUE)
  \/ AddLogSave("s1", TRUE)
  \/ Display("s1")
SpecUpload == InitWith({NoFile}, {"ok"}, {<<>>}, {NoProbe}) /\ [][NextUpload]_vars

\* One session sending segments of recording A while the host may clear
\* files, with every selection and every outcome of SMTP.
NextAttach ==
  \/ FileCleared
  \/ UserUpload("s1", "A")
  \/ \E chk \in SUBSET Range(generated_files["s1"]) : UserSend("s1", "a@x.io", chk)
  \/ HandleUpload("s1")
  \/ SplitAudio("s1", TRUE)
  \/ Cleanup("s1")
  \/ Section("s1")
  \/ \E smtp_ok \in BOOLEAN : SendBatch("s1", smtp_ok)
  \/ RecordResult("s1")
  \/ AddLogLoad("s1", TRUE)
  \/ AddLogSave("s1", TRUE)
  \/ Display("s1")
SpecAttach == InitWith({NoFile}, {"ok"}, {<<>>}, {NoProbe}) /\ [][NextAttach]_vars

\* One session sending recording A with a history file from before V11.
NextLegacy ==
  \/ UserUpload("s1", "A")
  \/ \E chk \in SUBSET Range(generated_files["s1"]) : UserSend("s1", "a@x.io", chk)
  \/ HandleUpload("s1")
  \/ SplitAudio("s1", TRUE)
  \/ Cleanup("s1")
  \/ Section("s1")
  \/ \E smtp_ok \in BOOLEAN : SendBatch("s1", smtp_ok)
  \/ RecordResult("s1")
  \/ AddLogLoad("s1", TRUE)
  \/ AddLogSave("s1", TRUE)
  \/ Display("s1")
SpecLegacy ==
  InitWith({LegacyFile, LegacyFileNA}, {"ok"}, {<<>>}, {NoProbe}) /\ [][NextLegacy]_vars

\* Two sessions in the same working directory uploading recordings A and B
\* over the minutes, each run segmenting what it finds in the temp file.
NextIsolation ==
  \/ Tick
  \/ \E s \in Sessions :
       \/ \E u \in {"A", "B"} : UserUpload(s, u)
       \/ HandleUpload(s)
       \/ SplitAudio(s, TRUE)
       \/ Cleanup(s)
       \/ Section(s)
       \/ Display(s)
SpecIsolation == InitWith({NoFile}, {"ok"}, {<<>>}, {NoProbe}) /\ [][NextIsolation]_vars

\* Two sessions in the same working directory, each uploading recording C
\* and sending its segment, and the admin tab.
NextShared ==
  \E s \in Sessions :
    \/ UserUpload(s, "C")
    \/ UserSend(s, "a@x.io", Range(generated_files[s]))
    \/ UserAdminSave(s, ADMIN_PASSWORD)
    \/ HandleUpload(s)
    \/ SplitAudio(s, TRUE)
    \/ Cleanup(s)
    \/ Section(s)
    \/ SendBatch(s, TRUE)
    \/ RecordResult(s)
    \/ AddLogLoad(s, TRUE)
    \/ AddLogSave(s, TRUE)
    \/ Display(s)
    \/ AdminLoad(s)
    \/ AdminSave(s)
SpecShared == InitWith({NoFile}, {"ok"}, {<<>>}, {NoProbe}) /\ [][NextShared]_vars

\* =================================================================== claims

\* ---- C1 (SpecBatch)
BatchTotal(batch) == SumSeq([i \in 1..Len(batch) |-> b_sizes[batch[i]]])

\* C1: the batches the greedy loop builds for a list of sizes, concatenated
\* in order, are the list itself; none is empty; and each totals at most
\* the 20 MB cap unless it is a single file that alone exceeds the cap.
C1_BatcherContract ==
  b_done =>
    /\ Flatten(b_batches) = [i \in 1..Len(b_sizes) |-> i]
    /\ \A k \in 1..Len(b_batches) : b_batches[k] # <<>>
    /\ \A k \in 1..Len(b_batches) :
         \/ BatchTotal(b_batches[k]) <= size_limit_bytes
         \/ Len(b_batches[k]) = 1 /\ b_sizes[b_batches[k][1]] > size_limit_bytes

\* Scenario D inside a longer list: an oversized file alone in its batch,
\* between other batches.
C1_Witness ==
  /\ b_done
  /\ Len(b_batches) >= 3
  /\ \E k \in 2..(Len(b_batches) - 1) :
       Len(b_batches[k]) = 1 /\ BatchTotal(b_batches[k]) > size_limit_bytes

\* ---- C2 (SpecSend)
STATUS_FAILURE == "failure"
Successes(s) == Cardinality({k \in 1..Len(sent[s]) : sent[s][k].success})
\* the dispatch loop of session s is over and its result is about to be recorded
DispatchRecorded(s) == pc[s] = "add_log" /\ ~in_except[s] /\ batches[s] # <<>>

\* C2: the status recorded for a dispatch of N >= 1 batches is success iff
\* every send succeeded, failure iff none succeeded, and partial-failure
\* otherwise.
C2_AggregateStatusRule ==
  \A s \in Sessions :
    DispatchRecorded(s) =>
      LET n == Len(batches[s])
          ok == Successes(s)
          status == log_args[s].status
      IN /\ (status = STATUS_SUCCESS) <=> (ok = n)
         /\ (status = STATUS_FAILURE) <=> (ok = 0)
         /\ (status = STATUS_PARTIAL) <=> (0 < ok /\ ok < n)

\* ---- C3 (SpecSend)
\* C3: once the dispatch of N batches has started, the messages handed to
\* SMTP so far are those of batches 1, 2, ... in that order, one each, and
\* when the loop is left all N have been handed over, whatever the outcomes.
C3_EveryBatchSubmittedOnce ==
  \A s \in Sessions :
    batches[s] # <<>> =>
      /\ Len(sent[s]) <= Len(batches[s])
      /\ \A k \in 1..Len(sent[s]) :
           /\ sent[s][k].batch_index = k
           /\ sent[s][k].total_batches = Len(batches[s])
      /\ pc[s] = "dispatch" => Len(sent[s]) = idx[s]
      /\ pc[s] # "dispatch" => Len(sent[s]) = Len(batches[s])

\* The first of two batches failed and the second was still handed over.
C3_Witness ==
  \E s \in Sessions :
    /\ pc[s] = "add_log"
    /\ Len(sent[s]) = 2
    /\ ~sent[s][1].success

\* ---- C4 (SpecShared)
Count(r, rows) == Cardinality({i \in 1..Len(rows) : rows[i] = r})
\* session s's add_log writes the file in this step
AddLogWrites(s) == pc[s] = "save_log" /\ pc'[s] = "display"
NewCells(s) == write_row(NewData(log_args[s]))

\* C4: whatever the interleaving of the sessions' add_log calls, an add_log
\* that completes loses no row: every row stored before it is still stored,
\* as often as before, and its own row is stored as well.
C4_NoAppendedRowLost ==
  [][\A s \in Sessions :
       AddLogWrites(s) =>
         \A r \in Range(log_file.rows) \cup {NewCells(s)} :
           Count(r, log_file'.rows) >=
             Count(r, log_file.rows) + (IF r = NewCells(s) THEN 1 ELSE 0)]_vars

\* ---- C5 (SpecSend)
\* C5: in a single session, load_log() after add_log(r) returns one row more
\* than before, and r (recipient, total size, status, detail) as it was
\* given; so N add_log calls on an absent file leave exactly N rows.
C5_LedgerRoundTrip ==
  [][\A s \in Sessions :
       AddLogWrites(s) =>
         /\ Len(load_log(log_file')) = Len(load_log(log_file)) + 1
         /\ load_log(log_file')[1] = NewData(log_args[s])]_vars

\* ---- C6 (SpecShared)
AdminWrites(s) == pc[s] = "admin_save" /\ pc'[s] = "run"

\* C6: the history changes only by an add_log that puts its row first and
\* leaves the stored rows as they were, in order, or by the admin's save;
\* and the admin's save is reached only with the admin password.
C6_AppendOnlyNewestFirst ==
  [][/\ log_file' # log_file =>
          \/ \E s \in Sessions : AdminWrites(s)
          \/ \E s \in Sessions :
               /\ AddLogWrites(s)
               /\ log_file'.rows = <<NewCells(s)>> \o log_file.rows
     /\ \A s \in Sessions :
          AdminWrites(s) => admin_password[s] = ADMIN_PASSWORD /\ clicked[s] = "admin"]_vars

\* ---- C7 (SpecSend)
ABORTED_STATUSES == {STATUS_CONFIG, STATUS_INTERRUPTED}
\* the rows of the history that were not in the file from the start
RecordedRows ==
  {i \in 1..Len(log_file.rows) :
     \A j \in 1..Len(LegacyFile.rows) :
       log_file.rows[i].recipient # LegacyFile.rows[j].recipient}

\* C7: while st.secrets has no [email] section, or one without the
\* credentials, no message is handed to SMTP and no batch is built, and
\* every row a send action records or is about to record carries the
\* configuration-error or the interrupted status, never the status of a
\* dispatch.
C7_MissingCredentialsAbort ==
  secrets # "ok" =>
    /\ \A s \in Sessions :
         /\ sent[s] = <<>>
         /\ batches[s] = <<>>
         /\ pc[s] # "dispatch"
         /\ log_args[s] # NoArgs => log_args[s].status \in ABORTED_STATUSES
    /\ \A i \in RecordedRows :
         log_file.rows[i].status \in ABORTED_STATUSES

\* A send action without credentials has recorded its configuration error.
C7_Witness ==
  /\ secrets = "missing"
  /\ \E s \in Sessions : pc[s] = "display" /\ log_args[s].status = STATUS_CONFIG
  /\ \E i \in RecordedRows : log_file.rows[i].status = STATUS_CONFIG

\* ---- C8 (SpecUpload)
SendPcs == {"dispatch", "add_log", "save_log", "except"}

\* C8: while the page shows that probing or segmentation of the upload
\* failed, the session holds no segments, the send button is not there, no
\* send is in progress and nothing has been handed to SMTP.
C8_FailedSegmentationHoldsNothing ==
  \A s \in Sessions :
    st_error[s] # "" =>
      /\ files[s] = <<>>
      /\ generated_files[s] = <<>>
      /\ ~SendButtonShown(s)
      /\ pc[s] \notin SendPcs
      /\ batches[s] = <<>>
      /\ sent[s] = <<>>

\* The run is over with a failed segmentation of a large recording while
\* segment files of an earlier upload lie in the directory.
C8_Witness ==
  \E s \in Sessions :
    /\ pc[s] = "idle"
    /\ st_error[s] = "ffmpeg failed"
    /\ uploaded_file[s] = "B"
    /\ DOMAIN fs # {}

\* ---- C9 (SpecUpload)
\* session s holds segments for the upload that is in its uploader
SegmentedSame(s) ==
  /\ generated_files[s] # <<>>
  /\ uploaded_file[s] # None
  /\ file_id(uploaded_file[s]) = last_uploaded_file_id[s]

\* C9: no step of a script run of a session that holds segments for the
\* upload in its uploader segments again (the run does not write the temp
\* file or a segment file and does not reach the split), and the held
\* segment list and the held identity stay as they are.
C9_IdempotentReupload ==
  [][\A s \in Sessions :
       (pc[s] # "idle" /\ SegmentedSame(s)) =>
         /\ generated_files'[s] = generated_files[s]
         /\ last_uploaded_file_id'[s] = last_uploaded_file_id[s]
         /\ pc'[s] \notin {"split", "cleanup"}
         /\ temp_input' = temp_input
         /\ fs' = fs]_vars

\* A rerun with the same upload went past the upload handling without
\* segmenting.
C9_Witness ==
  \E s \in Sessions :
    /\ pc[s] = "section"
    /\ SegmentedSame(s)
    /\ clicked[s] = "none"
    /\ files[s] = <<>>

\* ---- C10 (SpecUpload)
HeldOf(n) == file_id(fs[n].src)

\* C10: the held segment list is empty while a new upload is being
\* segmented, and every segment file a session offers for selection or has
\* attached to a message holds content of the upload whose identity the
\* session holds, never of the upload it held before.
C10_NoSegmentOfPreviousUpload ==
  \A s \in Sessions :
    /\ pc[s] \in {"split", "cleanup"} => generated_files[s] = <<>>
    /\ \A n \in Range(generated_files[s]) :
         n \in DOMAIN fs => HeldOf(n) = last_uploaded_file_id[s]
    /\ \A k \in 1..Len(sent[s]) :
         \A n \in Range(sent[s][k].attachments) :
           HeldOf(n) = last_uploaded_file_id[s]

\* ---- C11 (SpecUpload)
\* the reset button pressed in session s
ResetStep(s) ==
  /\ pc[s] = "idle"
  /\ generated_files'[s] = <<>>
  /\ last_uploaded_file_id'[s] = NoId
\* a script run of session s receiving an upload other than the held one
DistinctUploadStep(s) ==
  /\ pc[s] = "run"
  /\ uploaded_file[s] # None
  /\ file_id(uploaded_file[s]) # last_uploaded_file_id[s]
\* the dispatch loop is entered only by the run the send button started, and
\* the button's flag does not outlive that run
DispatchOncePerClick(s) ==
  /\ (pc'[s] = "dispatch" /\ pc[s] # "dispatch") =>
       (pc[s] = "section" /\ clicked[s] = "send" /\ sent[s] = <<>>)
  /\ (pc'[s] = "section" /\ pc[s] # "section") => pc[s] \in {"run", "cleanup"}
  /\ (clicked'[s] = "send" /\ clicked[s] # "send") => pc[s] = "idle"
  /\ pc'[s] = "idle" => clicked'[s] = "none"
\* some send of the session has reached its outcome and was recorded
SendRecorded == log_file.rows # <<>>

\* C11 as stated: the dispatch loop runs once per press of the send button,
\* and once a send has reached its outcome no step other than the reset
\* button empties the held segment list or changes the held identity.
C11_OnlyResetClears ==
  [][\A s \in Sessions :
       /\ DispatchOncePerClick(s)
       /\ (SendRecorded /\
           (\/ generated_files[s] # <<>> /\ generated_files'[s] = <<>>
            \/ last_uploaded_file_id'[s] # last_uploaded_file_id[s])) =>
            ResetStep(s)]_vars

\* C11 amended: the dispatch loop runs once per press of the send button, and
\* the held segment list is emptied and the held identity changed only by
\* the reset button or by a run that receives an upload with another
\* identity; no other step, and no rerun with the same or no upload, does.
C11_ClearedOnlyByResetOrNewUpload ==
  [][\A s \in Sessions :
       /\ DispatchOncePerClick(s)
       /\ (\/ generated_files[s] # <<>> /\ generated_files'[s] # generated_files[s]
           \/ last_uploaded_file_id'[s] # last_uploaded_file_id[s]) =>
            (ResetStep(s) \/ DistinctUploadStep(s))]_vars

\* After a recorded send and the end of its run the session still holds the
\* segments and the identity.
C11_Witness ==
  \E s \in Sessions :
    /\ SendRecorded
    /\ pc[s] = "idle"
    /\ generated_files[s] # <<>>
    /\ last_uploaded_file_id[s] # NoId
    /\ uploaded_file[s] # None

\* ---- C12 (SpecSend)
\* the dispatch loop of session s has attempted every batch
DispatchCompleted(s) ==
  /\ batches[s] # <<>>
  /\ Len(sent[s]) = Len(batches[s])
  /\ pc[s] # "dispatch"
DispatchStatus(s) == IF all_success[s] THEN STATUS_SUCCESS ELSE STATUS_PARTIAL

\* C12: once every batch of a send has been attempted, the outcome shown and
\* the row given to add_log carry the status of the dispatch (success, or
\* partial-failure when a send failed), also after an add_log that raised;
\* the handler never turns to the interrupted outcome.
C12_LedgerFailureKeepsOutcome ==
  \A s \in Sessions :
    DispatchCompleted(s) =>
      /\ ~in_except[s]
      /\ log_args[s].status = DispatchStatus(s)

\* ---- C13 (SpecSizing)
\* 95% of the target size, as a fraction and rounded up to whole bytes
MarginBytes == Rat(95 * target_bytes, 100)

\* C13: a probed file with a positive duration and a size of at most the
\* target is written as one segment, part000, holding all of it; a larger
\* one is cut with a segment_time at which the average bitrate gives
\* exactly 95% of the target size, so that no segment is larger than that,
\* and the cuts at the multiples of segment_time give segments that cover
\* the whole duration, the last one not empty, and the whole size.
C13_SegmentationSizing ==
  (z_done /\ z_duration > 0) =>
    LET st == segment_time(z_size, z_duration)
        n == Len(z_files)
    IN /\ z_size <= target_bytes => z_files = <<z_size>>
       /\ z_size > target_bytes =>
            /\ RatMul(st, Rat(z_size, z_duration)) = MarginBytes
            /\ n >= 2
            /\ RatLess(RatMul(Rat(n - 1, 1), st), Rat(z_duration, 1))
            /\ ~RatLess(RatMul(Rat(n, 1), st), Rat(z_duration, 1))
            /\ SumSeq(z_files) = z_size
            /\ \A k \in 1..n : z_files[k] > 0 /\ z_files[k] <= Ceil(MarginBytes)

\* Scenario A: 27 MB lasting 600 s, target 9.5 MB: three segments.
C13_Witness ==
  /\ z_done
  /\ z_size = 27 * MB
  /\ z_duration = 600
  /\ Len(z_files) = 3

\* ---- C14 (SpecAttach)
\* C14: every message handed to SMTP for batch k carries segment files of
\* batch k and no others, and when its send is reported as a success it
\* carries all of them, in order, none left out.
C14_AttachmentsAreTheBatch ==
  \A s \in Sessions :
    \A k \in 1..Len(sent[s]) :
      /\ k <= Len(batches[s])
      /\ Range(sent[s][k].attachments) \subseteq Range(batches[s][k])
      /\ sent[s][k].success => sent[s][k].attachments = batches[s][k]

\* ---- C15 (SpecSend)
\* the indices of the batches whose send failed, in order
FailedIdx(s) ==
  SelectSeq([k \in 1..Len(sent[s]) |-> k], LAMBDA k : ~sent[s][k].success)
\* a detail that names those batches and no others
FailedDetail(s) ==
  Join([j \in 1..Len(FailedIdx(s)) |-> ErrorMsg(FailedIdx(s)[j], SMTP_ERROR)], " | ")
\* the run of a send action that passed the input validation has recorded
SendActionRecorded(s) == pc[s] = "display" /\ selected_files[s] # <<>>

\* C15: when the run of a validated send action has recorded, the history
\* is one row longer than the run found it, and if some batch sends failed
\* the new row has the partial-failure status and a detail naming exactly
\* the batches that failed.
C15_OneRowNamingFailedBatches ==
  \A s \in Sessions :
    SendActionRecorded(s) =>
      /\ Len(log_file.rows) = Len(df[s]) + 1
      /\ (DispatchCompleted(s) /\ FailedIdx(s) # <<>>) =>
           /\ log_file.rows[1].status = STATUS_PARTIAL
           /\ log_file.rows[1].message = FailedDetail(s)

\* ---- C16 (SpecBatch)
\* C16: of two consecutive batches the batcher returns, the earlier one
\* could not have taken the first file of the later one: its total plus
\* that file's size exceeds the 20 MB cap.
C16_GreedyMaximality ==
  b_done =>
    \A k \in 1..(Len(b_batches) - 1) :
      BatchTotal(b_batches[k]) + b_sizes[b_batches[k + 1][1]] > size_limit_bytes

\* Scenario B: 8, 7 and 6 MB give [[8, 7], [6]].
C16_Witness ==
  /\ b_done
  /\ b_sizes = <<8 * MB, 7 * MB, 6 * MB>>
  /\ b_batches = <<<<1, 2>>, <<3>>>>

\* ---- C17 (SpecSend)
\* the subject that records position k of n
NumberedSubject(k, n) == SUBJECT \o " (" \o ToString(k) \o "/" \o ToString(n) \o ")"

\* C17: the k-th message handed to SMTP in a dispatch of N batches was
\* built for index k of N, N being the number of batches the batcher made
\* of the selection; its subject is the plain one when N = 1 and the plain
\* one followed by (k/N) when N > 1.
C17_SubjectRecordsPosition ==
  \A s \in Sessions :
    \A k \in 1..Len(sent[s]) :
      LET n == Len(AutoBatch(selected_files[s], getsize(selected_files[s])))
      IN /\ n = Len(batches[s])
         /\ sent[s][k].batch_index = k
         /\ sent[s][k].total_batches = n
         /\ n = 1 => sent[s][k].subject = SUBJECT
         /\ n > 1 => sent[s][k].subject = NumberedSubject(k, n)
         /\ (sent[s][k].subject = SUBJECT) <=> (n = 1)

\* Both messages of a dispatch of two batches are out, numbered 1/2 and 2/2.
C17_Witness ==
  \E s \in Sessions :
    /\ Len(sent[s]) = 2
    /\ sent[s][1].subject = NumberedSubject(1, 2)
    /\ sent[s][2].subject = NumberedSubject(2, 2)

\* ---- C18 (SpecLegacy)
\* C18: what load_log returns for a history file without the total-size
\* column (here to add_log, which has just called it) has a row for every
\* stored row, with the total size "" and the recipient, status and detail
\* as they are stored.
C18_LegacyHistoryLoads ==
  \A s \in Sessions :
    (pc[s] = "save_log" /\ ~log_file.has_size) =>
      /\ Len(df[s]) = Len(log_file.rows)
      /\ \A i \in 1..Len(df[s]) :
           /\ df[s][i].total_size = ""
           /\ df[s][i].recipient = log_file.rows[i].recipient
           /\ df[s][i].status = log_file.rows[i].status
           /\ df[s][i].message = log_file.rows[i].message

\* ---- C19 (SpecIsolation)
\* the upload whose identity session s holds
HeldUpload(s) == CHOOSE u \in UploadIds : file_id(u) = last_uploaded_file_id[s]

\* C19: the segment list a session holds for an upload has as many files as
\* the segmentation of that upload writes, each of them exists and holds
\* bytes of that upload; and a run that has just segmented got all of that
\* from the upload it wrote to the temp file.
C19_SegmentIsolation ==
  \A s \in Sessions :
    /\ generated_files[s] # <<>> =>
         /\ Len(generated_files[s]) = Len(Upload[HeldUpload(s)].parts)
         /\ \A n \in Range(generated_files[s]) :
              n \in DOMAIN fs /\ fs[n].src = HeldUpload(s)
    /\ pc[s] = "cleanup" =>
         /\ st_error[s] = ""
         /\ Len(files[s]) = Len(Upload[uploaded_file[s]].parts)
         /\ \A n \in Range(files[s]) : fs[n].src = uploaded_file[s]

====
